---- MODULE Spec2Model ----
(***************************************************************************)
(* Verification model of the PennyLane challenge notebooks:                *)
(*   - the test harness every notebook ends with (run / check / loop),     *)
(*   - qRAM's addressed-rotation circuit,                                  *)
(*   - my_parameter_shift_grad, fidelities, fourier_squared_distance,      *)
(*     get_matrix.                                                         *)
(* Each program has its own specification (SpecHarness, SpecQRAM, ...);    *)
(* the variables of the other programs stay at their idle values.          *)
(***************************************************************************)
EXTENDS Integers, Sequences, FiniteSets, TLC

VARIABLES
    \* ---- test harness ----
    exercise,       \* which notebook's harness runs
    test_cases,     \* list of expected outputs (the inputs are abstracted)
    i,              \* loop index of `for i, (input_, expected_output)`, 1-based
    pc,             \* position in the harness loop
    output,         \* value returned by run(input_) in this iteration
    printed,        \* everything print() wrote, in order
    runLog,         \* history: for each started test case, how run ended
    checkLog,       \* history: the test cases check was called for
    \* ---- qRAM ----
    thetas,         \* the list of angles qRAM was called with
    qpc,            \* position in qRAM's circuit
    hindex,         \* `index` of the Hadamard loop
    address,        \* `address` of the enumerate(thetas) loop, 0-based
    branches,       \* per computational-basis branch: index wires, RY angle of wire 3
    rotStart,       \* history: each branch's angle when the iteration started
    queue,          \* the (gate, wires) pairs queued so far
    \* ---- my_parameter_shift_grad ----
    grad_params,    \* `params`, two fixed-point angles
    shift,          \* `shift`
    gpc,            \* position in my_parameter_shift_grad
    new_params,     \* `new_params`
    gradient,       \* `gradient`
    grad_ret,       \* the returned list, in units of 1e-5
    \* ---- fidelities ----
    probs,          \* `probs`, each a number of ProbDen-ths
    fi,             \* `i` of enumerate(probs), 0-based
    npc,            \* position in fidelities and in the qnode being executed
    rho,            \* density matrix of the default.mixed device
    noisy,          \* the state bitflip_circuit(p) returned
    fids,           \* `fids`
    fids_ret,       \* the returned list, in units of 1e-5
    tape,           \* the operations the qnode being executed has applied, in order
    noisy_tape,     \* history: the operations of the bitflip_circuit(p) call
    \* ---- fourier_squared_distance ----
    list_of_coeffs, \* the seven coefficients of f, each <<re, im>>
    coefficients,   \* what qml.fourier.coefficients returned, each <<re, im>>
    fpc,            \* position in squared_distance
    fidx,           \* `i` of the loop, 0-based
    res,            \* `res`
    \* ---- get_matrix / train_parameters / run / check ----
    uparams,        \* the array train_parameters returns
    solution_output,\* what run returns: json.dumps(params), as tokens
    upc,            \* position in run / check / get_matrix
    unpacked,       \* alpha, beta, gamma, phi of get_matrix
    com,            \* `com`
    U,              \* `U`
    matrix1,        \* what get_matrix returned to check
    \* ---- the Universality notebook's test loop and its random generator ----
    rng,            \* how many np.random.rand(4) calls the global generator has served
    scases,         \* test_cases: pairs <<input, expected output>> of matrix names
    si,             \* `i` of the test loop, 0-based
    spc,            \* position in the loop / run / train_parameters / check
    train_params,   \* `params` of train_parameters, four fixed-point angles
    epoch,          \* `epoch`
    soutput,        \* `output`: what run returned
    sprinted,       \* everything print() wrote, in order
    souts,          \* history: for each run that returned, its input and its output
    \* ---- error ----
    error_U,        \* `U`, the goal matrix error was called with
    error_params,   \* `params`
    epc,            \* position in error
    error_matrix,   \* `matrix`
    error_dif,      \* `dif`
    error_ret       \* the returned norm, kept as its square

hvars == <<exercise, test_cases, i, pc, output, printed, runLog, checkLog>>

qvars == <<thetas, qpc, hindex, address, branches, rotStart, queue>>

gvars == <<grad_params, shift, gpc, new_params, gradient, grad_ret>>

nvars == <<probs, fi, npc, rho, noisy, fids, fids_ret, tape, noisy_tape>>

fvars == <<list_of_coeffs, coefficients, fpc, fidx, res>>

uvars == <<uparams, solution_output, upc, unpacked, com, U, matrix1>>

svars == <<rng, scases, si, spc, train_params, epoch, soutput, sprinted, souts>>

evars == <<error_U, error_params, epc, error_matrix, error_dif, error_ret>>

vars == <<hvars, qvars, gvars, nvars, fvars, uvars, svars, evars>>

notHarness == <<qvars, gvars, nvars, fvars, uvars, svars, evars>>

notQRAM == <<hvars, gvars, nvars, fvars, uvars, svars, evars>>

notGrad == <<hvars, qvars, nvars, fvars, uvars, svars, evars>>

notNoise == <<hvars, qvars, gvars, fvars, uvars, svars, evars>>

notFourier == <<hvars, qvars, gvars, nvars, uvars, svars, evars>>

notUniv == <<hvars, qvars, gvars, nvars, fvars, svars, evars>>

notSeeded == <<hvars, qvars, gvars, nvars, fvars, uvars, evars>>

notError == <<hvars, qvars, gvars, nvars, fvars, uvars, svars>>

Abs(x) == IF x < 0 THEN -x ELSE x

(***************************************************************************)
(* Test harness.  Numbers are fixed point, one unit = 1e-3; tolerances are *)
(* compared in units of 1e-8 (UnitE8 units of 1e-8 make one unit).         *)
(***************************************************************************)
Exercises == {"fourier", "noise", "gradient", "universality"}

UnitE8 == 10^5

\* atol default of np.allclose, 1e-8, in units of 1e-8
AtolDefaultE8 == 1

\* rtol default of np.allclose is 1e-5 = 1 / 100000
RtolDefaultDen == 100000

\* the rtol / atol keyword arguments each notebook's check passes to np.allclose
RtolDen(ex) ==
    CASE ex = "fourier"      -> 100
      [] ex = "noise"        -> 10000
      [] ex = "gradient"     -> 10000
      [] ex = "universality" -> RtolDefaultDen

AtolE8(ex) ==
    CASE ex = "universality" -> 20000000
      [] OTHER               -> AtolDefaultE8

\* np.allclose(a, b, rtol, atol) on one element: |a - b| <= atol + rtol * |b|
allclose(a, b, rtolDen, atolE8) ==
    Abs(a - b) * UnitE8 <= atolE8 + Abs(b) * (UnitE8 \div rtolDen)

\* what check(solution_output, expected_output) does: TRUE when both asserts
\* pass (check then returns None), FALSE when the assert raises AssertionError
checkPasses(ex, solution, expected) ==
    allclose(solution, expected, RtolDen(ex), AtolE8(ex))

\* Python values the harness compares with ==
PyNone == <<"NoneType", 0>>
PyInt(n) == <<"int", n>>

\* `message = 0`
message == PyInt(0)

\* check has no return statement: a call that does not raise returns None
checkReturn == PyNone

MaxTests == 2

\* outputs and expected outputs the harness is exercised with (units of 1e-3)
Vals == {0, 4, 10, 2000, 2015}

line(case, kind, have, want) == [case |-> case, kind |-> kind, have |-> have, want |-> want]

HarnessIdle ==
    /\ exercise = "none"
    /\ test_cases = <<>>
    /\ i = 0
    /\ pc = "idle"
    /\ output = 0
    /\ printed = <<>>
    /\ runLog = <<>>
    /\ checkLog = {}

QRAMIdle ==
    /\ thetas = <<>>
    /\ qpc = "idle"
    /\ hindex = 0
    /\ address = 0
    /\ branches = <<>>
    /\ rotStart = <<>>
    /\ queue = {}

GradIdle ==
    /\ grad_params = <<>>
    /\ shift = 0
    /\ gpc = "idle"
    /\ new_params = <<>>
    /\ gradient = <<>>
    /\ grad_ret = <<>>

NoiseIdle ==
    /\ probs = <<>>
    /\ fi = 0
    /\ npc = "idle"
    /\ rho = <<>>
    /\ noisy = <<>>
    /\ fids = <<>>
    /\ fids_ret = <<>>
    /\ tape = <<>>
    /\ noisy_tape = <<>>

FourierIdle ==
    /\ list_of_coeffs = <<>>
    /\ coefficients = <<>>
    /\ fpc = "idle"
    /\ fidx = 0
    /\ res = 0

UnivIdle ==
    /\ uparams = <<>>
    /\ solution_output = <<>>
    /\ upc = "idle"
    /\ unpacked = <<>>
    /\ com = <<>>
    /\ U = <<>>
    /\ matrix1 = <<>>

SeededIdle ==
    /\ rng = 0
    /\ scases = <<>>
    /\ si = 0
    /\ spc = "idle"
    /\ train_params = <<>>
    /\ epoch = 0
    /\ soutput = <<>>
    /\ sprinted = <<>>
    /\ souts = <<>>

ErrorIdle ==
    /\ error_U = <<>>
    /\ error_params = <<>>
    /\ epc = "idle"
    /\ error_matrix = <<>>
    /\ error_dif = <<>>
    /\ error_ret = <<>>

HarnessInit ==
    /\ exercise \in Exercises
    /\ test_cases \in UNION {[1..n -> Vals] : n \in 1..MaxTests}
    /\ i = 1
    /\ pc = "for"
    /\ output = 0
    /\ printed = <<>>
    /\ runLog = <<>>
    /\ checkLog = {}
    /\ QRAMIdle
    /\ GradIdle
    /\ NoiseIdle
    /\ FourierIdle
    /\ UnivIdle
    /\ SeededIdle
    /\ ErrorIdle

\* for i, (input_, expected_output) in enumerate(test_cases): print("Running ...")
ForNext ==
    /\ pc = "for"
    /\ i <= Len(test_cases)
    /\ printed' = Append(printed, line(i, "Running", 0, 0))
    /\ pc' = "try"
    /\ UNCHANGED <<exercise, test_cases, i, output, runLog, checkLog>>
    /\ UNCHANGED notHarness

\* the list is exhausted: the loop ends
ForEnd ==
    /\ pc = "for"
    /\ i > Len(test_cases)
    /\ pc' = "done"
    /\ UNCHANGED <<exercise, test_cases, i, output, printed, runLog, checkLog>>
    /\ UNCHANGED notHarness

\* try: output = run(input_)   -- run returns v
TryRunReturns ==
    /\ pc = "try"
    /\ \E v \in Vals :
        /\ output' = v
        /\ runLog' = Append(runLog, [case |-> i, how |-> "returned", out |-> v])
    /\ pc' = "else"
    /\ UNCHANGED <<exercise, test_cases, i, printed, checkLog>>
    /\ UNCHANGED notHarness

\* faulty variant: the handler prints and then falls into the else clause
ExceptThenElse ==
    /\ pc = "try"
    /\ runLog' = Append(runLog, [case |-> i, how |-> "raised", out |-> 0])
    /\ printed' = Append(printed, line(i, "Runtime Error", 0, 0))
    /\ pc' = "else"
    /\ UNCHANGED <<exercise, test_cases, i, output, checkLog>>
    /\ UNCHANGED notHarness

\* except Exception as exc: print(f"Runtime Error. {exc}")   -- run raised
ExceptRuntimeError ==
    /\ pc = "try"
    /\ runLog' = Append(runLog, [case |-> i, how |-> "raised", out |-> 0])
    /\ printed' = Append(printed, line(i, "Runtime Error", 0, 0))
    /\ i' = i + 1
    /\ pc' = "for"
    /\ UNCHANGED <<exercise, test_cases, output, checkLog>>
    /\ UNCHANGED notHarness

\* else: message = 0; if message == check(output, expected_output): print Wrong
\* Answer; else: print Correct!      -- the call of check returns
ElseCheckReturns ==
    /\ pc = "else"
    /\ checkPasses(exercise, output, test_cases[i])
    /\ checkLog' = checkLog \cup {i}
    /\ printed' = Append(printed,
                         IF message = checkReturn
                         THEN line(i, "Wrong Answer", output, test_cases[i])
                         ELSE line(i, "Correct!", 0, 0))
    /\ i' = i + 1
    /\ pc' = "for"
    /\ UNCHANGED <<exercise, test_cases, output, runLog>>
    /\ UNCHANGED notHarness

\* faulty variant: the asserts of check are stripped (python -O), so check
\* returns None although the comparison fails
ElseCheckAssertStripped ==
    /\ pc = "else"
    /\ ~checkPasses(exercise, output, test_cases[i])
    /\ checkLog' = checkLog \cup {i}
    /\ printed' = Append(printed,
                         IF message = checkReturn
                         THEN line(i, "Wrong Answer", output, test_cases[i])
                         ELSE line(i, "Correct!", 0, 0))
    /\ i' = i + 1
    /\ pc' = "for"
    /\ UNCHANGED <<exercise, test_cases, output, runLog>>
    /\ UNCHANGED notHarness

\* else: ... check(output, expected_output) raises AssertionError; the else
\* clause is outside the try body, so nothing catches it and the loop is left
ElseCheckRaises ==
    /\ pc = "else"
    /\ ~checkPasses(exercise, output, test_cases[i])
    /\ checkLog' = checkLog \cup {i}
    /\ pc' = "AssertionError"
    /\ UNCHANGED <<exercise, test_cases, i, output, printed, runLog>>
    /\ UNCHANGED notHarness

HarnessNext ==
    \/ ForNext
    \/ ForEnd
    \/ TryRunReturns
    \/ ExceptRuntimeError
    \/ ElseCheckReturns
    \/ ElseCheckRaises

SpecHarness == HarnessInit /\ [][HarnessNext]_vars

(***************************************************************************)
(* Claims about the test harness                                           *)
(***************************************************************************)
\* the test cases the loop is through with: the earlier ones, and the one in
\* which the loop was left by an uncaught exception
Finished(j) == j < i \/ (pc = "AssertionError" /\ j = i)

verdictKinds == {"Correct!", "Wrong Answer", "Runtime Error"}

linesOf(j, kinds) == {k \in 1..Len(printed) : printed[k].case = j /\ printed[k].kind \in kinds}

\* C1: every test case whose run returned gets exactly one verdict: "Correct!"
\* when the tolerance comparison of check passes, "Wrong Answer" with the
\* produced and the wanted output when it fails.
C1_OneVerdictPerReturnedRun ==
    \A k \in 1..Len(runLog) :
        LET j == runLog[k].case IN
        (runLog[k].how = "returned" /\ Finished(j)) =>
            /\ Cardinality(linesOf(j, verdictKinds)) = 1
            /\ \A n \in linesOf(j, verdictKinds) :
                 printed[n] = IF checkPasses(exercise, runLog[k].out, test_cases[j])
                              THEN line(j, "Correct!", 0, 0)
                              ELSE line(j, "Wrong Answer", runLog[k].out, test_cases[j])

\* C2: a test case whose run raised gets "Runtime Error", neither "Correct!"
\* nor "Wrong Answer", and check is not called for it.
C2_RaisedRunIsRuntimeError ==
    \A k \in 1..Len(runLog) :
        LET j == runLog[k].case IN
        runLog[k].how = "raised" =>
            /\ Cardinality(linesOf(j, {"Runtime Error"})) = 1
            /\ linesOf(j, {"Correct!", "Wrong Answer"}) = {}
            /\ j \notin checkLog

\* a run raised in an earlier test case and the loop went on to the end
C2_Witness ==
    /\ pc = "done"
    /\ \E k \in 1..Len(runLog) : runLog[k].how = "raised" /\ runLog[k].case < Len(test_cases)

\* C3: whatever happened in a test case, every test case of the list is run
\* exactly once, in list order, and the loop finishes the list: once the
\* harness has stopped, run was called for cases 1..Len(test_cases) in order
\* and the loop ended normally.
C3_EveryLaterCaseRuns ==
    pc \notin {"for", "try", "else"} =>
        /\ pc = "done"
        /\ [k \in 1..Len(runLog) |-> runLog[k].case] = [k \in 1..Len(test_cases) |-> k]

\* 0.01 in units of 1e-3
AbsTol == 10

\* C8: in the Fourier exercise check accepts exactly the outputs within 0.01
\* (absolute) of the expected output, whatever its magnitude.
C8_AbsoluteTolerance ==
    exercise = "fourier" =>
        \A k \in 1..Len(runLog) :
            LET j == runLog[k].case IN
            j \in checkLog =>
                ((pc = "AssertionError" /\ j = i) <=>
                    ~(Abs(runLog[k].out - test_cases[j]) <= AbsTol))

\* C12: "Correct!" is printed for a test case only if its run returned and
\* check's comparison of that output with the expected output passed; a test
\* case whose run raised or whose comparison failed has no "Correct!" line.
C12_CorrectOnlyIfPassed ==
    /\ \A n \in 1..Len(printed) :
          printed[n].kind = "Correct!" =>
              \E k \in 1..Len(runLog) :
                  /\ runLog[k].case = printed[n].case
                  /\ runLog[k].how = "returned"
                  /\ printed[n].case \in checkLog
                  /\ checkPasses(exercise, runLog[k].out, test_cases[printed[n].case])
    /\ \A k \in 1..Len(runLog) :
          (runLog[k].how = "raised"
             \/ ~checkPasses(exercise, runLog[k].out, test_cases[runLog[k].case])) =>
              linesOf(runLog[k].case, {"Correct!"}) = {}

\* the first test case was reported "Correct!", the second one's run returned
\* and its comparison failed
C12_Witness ==
    /\ pc = "AssertionError"
    /\ i = 2
    /\ linesOf(1, {"Correct!"}) # {}
    /\ linesOf(2, {"Correct!"}) = {}

(***************************************************************************)
(* qRAM.  A computational-basis branch is named by the value a of the      *)
(* index wires 0..2 after the Hadamards (wire 0 the most significant bit). *)
(* For each branch the model keeps the current bits of the index wires and *)
(* the RY angle wire 3 has been turned by; every rotation of wire 3 is     *)
(* about the Y axis, so the angles add.  Angles are integers; the thetas   *)
(* are multiples of 4 so that theta/2 and theta/4 are exact.               *)
(***************************************************************************)
\* range(3): the index wires
IndexWires == 3

MaxTheta == 2

ThetaVals == {4 * n : n \in 1..MaxTheta}

\* at most 2^3 addresses fit format(address, "03b")
MaxThetas == 2 ^ IndexWires

\* format(address, "03b"): the three binary digits, most significant first
format03b(n) == <<(n \div 4) % 2, (n \div 2) % 2, n % 2>>

\* the value the index wires w = <<w0, w1, w2>> hold, wire 0 most significant
valueOf(w) == 4 * w[1] + 2 * w[2] + w[3]

gate(name, gwires) == <<name, gwires>>

\* qml.Hadamard(wires=index) on a wire that is 0 in every branch: each branch
\* splits in two, the wire 0 in one and 1 in the other
Hadamard(br, index) ==
    LET old == {br[a].w : a \in DOMAIN br}
        new == old \cup {[w EXCEPT ![index + 1] = 1] : w \in old}
    IN  [a \in {valueOf(w) : w \in new} |-> [w |-> format03b(a), rot |-> 0]]

\* qml.PauliX(wires=index)
PauliX(br, index) ==
    [a \in DOMAIN br |-> [br[a] EXCEPT !.w[index + 1] = 1 - @]]

\* the loop `for index, j in enumerate(wire_number_in_binary): if j == '0':
\* qml.PauliX(wires=index)`, index running from `index` to 2
RECURSIVE FlipZeros(_, _, _)
FlipZeros(br, wire_number_in_binary, index) ==
    IF index >= Len(wire_number_in_binary) THEN br
    ELSE FlipZeros(IF wire_number_in_binary[index + 1] = 0 THEN PauliX(br, index) ELSE br,
                   wire_number_in_binary, index + 1)

FlipGates(wire_number_in_binary) ==
    {gate("PauliX", <<index>>) : index \in {n \in 0..2 : wire_number_in_binary[n + 1] = 0}}

\* faulty variant: the rotation is applied whatever the control wire holds
CRYUncontrolled(br, angle, control, sign) ==
    [a \in DOMAIN br |-> [br[a] EXCEPT !.rot = @ + sign * angle]]

\* faulty variant: .inv() has no effect, the rotation is applied forwards
CRYIgnoringInv(br, angle, control, sign) ==
    [a \in DOMAIN br |->
        IF br[a].w[control + 1] = 1 THEN [br[a] EXCEPT !.rot = @ + angle] ELSE br[a]]

\* qml.CRY(angle, wires=[control, 3]); sign = -1 for .inv()
CRY(br, angle, control, sign) ==
    [a \in DOMAIN br |->
        IF br[a].w[control + 1] = 1 THEN [br[a] EXCEPT !.rot = @ + sign * angle] ELSE br[a]]

\* qml.Toffoli(wires=[c1, c2, t])
Toffoli(br, c1, c2, t) ==
    [a \in DOMAIN br |->
        IF br[a].w[c1 + 1] = 1 /\ br[a].w[c2 + 1] = 1
        THEN [br[a] EXCEPT !.w[t + 1] = 1 - @] ELSE br[a]]

\* qml.CNOT(wires=[c, t])
CNOT(br, c, t) ==
    [a \in DOMAIN br |->
        IF br[a].w[c + 1] = 1 THEN [br[a] EXCEPT !.w[t + 1] = 1 - @] ELSE br[a]]

QRAMInit ==
    /\ thetas \in UNION {[1..n -> ThetaVals] : n \in 0..MaxThetas}
    /\ qpc = "hadamard"
    /\ hindex = 0
    /\ address = 0
    /\ branches = [a \in {0} |-> [w |-> <<0, 0, 0>>, rot |-> 0]]
    /\ rotStart = [a \in {0} |-> 0]
    /\ queue = {}
    /\ HarnessIdle
    /\ GradIdle
    /\ NoiseIdle
    /\ FourierIdle
    /\ UnivIdle
    /\ SeededIdle
    /\ ErrorIdle

theta == thetas[address + 1]

\* for index in range(3): qml.Hadamard(wires=index)
HadamardStep ==
    /\ qpc = "hadamard"
    /\ hindex < IndexWires
    /\ branches' = Hadamard(branches, hindex)
    /\ rotStart' = [a \in DOMAIN branches' |-> 0]
    /\ queue' = queue \cup {gate("Hadamard", <<hindex>>)}
    /\ hindex' = hindex + 1
    /\ UNCHANGED <<thetas, qpc, address>>
    /\ UNCHANGED notQRAM

\* the Hadamard loop is over: enter `for address, theta in enumerate(thetas)`
EnterLoop ==
    /\ qpc = "hadamard"
    /\ hindex = IndexWires
    /\ qpc' = "for"
    /\ UNCHANGED <<thetas, hindex, address, branches, rotStart, queue>>
    /\ UNCHANGED notQRAM

\* next address: wire_number_in_binary = format(address, "03b"), X on its 0 bits
FlipStep ==
    /\ qpc = "for"
    /\ address < Len(thetas)
    /\ rotStart' = [a \in DOMAIN branches |-> branches[a].rot]
    /\ branches' = FlipZeros(branches, format03b(address), 0)
    /\ queue' = queue \cup FlipGates(format03b(address))
    /\ qpc' = "CRY_half"
    /\ UNCHANGED <<thetas, hindex, address>>
    /\ UNCHANGED notQRAM

\* one gate of the loop body: `at` is where it stands, `to` what follows it
GateStep(at, to, name, gwires, br) ==
    /\ qpc = at
    /\ branches' = br
    /\ queue' = queue \cup {gate(name, gwires)}
    /\ qpc' = to
    /\ UNCHANGED <<thetas, hindex, address, rotStart>>
    /\ UNCHANGED notQRAM

\* qml.CRY(theta/2, wires=[2,3])
CRYHalf == GateStep("CRY_half", "Toffoli_1", "CRY", <<2, 3>>, CRY(branches, theta \div 2, 2, 1))

\* qml.Toffoli(wires=[0,1,2])
Toffoli1 == GateStep("Toffoli_1", "CRY_half_inv", "Toffoli", <<0, 1, 2>>, Toffoli(branches, 0, 1, 2))

\* qml.CRY(theta/2, wires=[2,3]).inv()
CRYHalfInv == GateStep("CRY_half_inv", "Toffoli_2", "CRY", <<2, 3>>, CRY(branches, theta \div 2, 2, -1))

\* qml.Toffoli(wires=[0,1,2])
Toffoli2 == GateStep("Toffoli_2", "CRY_quarter", "Toffoli", <<0, 1, 2>>, Toffoli(branches, 0, 1, 2))

\* qml.CRY(theta/4, wires=[1,3])
CRYQuarter == GateStep("CRY_quarter", "CNOT_1", "CRY", <<1, 3>>, CRY(branches, theta \div 4, 1, 1))

\* qml.CNOT(wires=[0,1])
CNOT1 == GateStep("CNOT_1", "CRY_quarter_inv", "CNOT", <<0, 1>>, CNOT(branches, 0, 1))

\* qml.CRY(theta/4, wires=[1,3]).inv()
CRYQuarterInv == GateStep("CRY_quarter_inv", "CNOT_2", "CRY", <<1, 3>>, CRY(branches, theta \div 4, 1, -1))

\* qml.CNOT(wires=[0,1])
CNOT2 == GateStep("CNOT_2", "CRY_last", "CNOT", <<0, 1>>, CNOT(branches, 0, 1))

\* qml.CRY(theta/4, wires=[0,3])
CRYLast == GateStep("CRY_last", "unflip", "CRY", <<0, 3>>, CRY(branches, theta \div 4, 0, 1))

\* faulty variant: the uncomputing X gates are left out
UnflipStepSkipped ==
    /\ qpc = "unflip"
    /\ address' = address + 1
    /\ qpc' = "for"
    /\ UNCHANGED <<thetas, hindex, branches, rotStart, queue>>
    /\ UNCHANGED notQRAM

\* uncomputing: X on the 0 bits of the address again; the iteration ends
UnflipStep ==
    /\ qpc = "unflip"
    /\ branches' = FlipZeros(branches, format03b(address), 0)
    /\ queue' = queue \cup FlipGates(format03b(address))
    /\ address' = address + 1
    /\ qpc' = "for"
    /\ UNCHANGED <<thetas, hindex, rotStart>>
    /\ UNCHANGED notQRAM

\* the loop is over: return qml.state()
ReturnState ==
    /\ qpc = "for"
    /\ address = Len(thetas)
    /\ qpc' = "done"
    /\ UNCHANGED <<thetas, hindex, address, branches, rotStart, queue>>
    /\ UNCHANGED notQRAM

QRAMNext ==
    \/ HadamardStep
    \/ EnterLoop
    \/ FlipStep
    \/ CRYHalf
    \/ Toffoli1
    \/ CRYHalfInv
    \/ Toffoli2
    \/ CRYQuarter
    \/ CNOT1
    \/ CRYQuarterInv
    \/ CNOT2
    \/ CRYLast
    \/ UnflipStep
    \/ ReturnState

SpecQRAM == QRAMInit /\ [][QRAMNext]_vars

\* C4: called with 8 thetas, iteration k turns wire 3 of branch a by thetas[k]
\* when a = k and by 0 when a # k; after the whole loop branch a has been
\* turned by exactly thetas[a].  (address counts the finished iterations; the
\* iteration that just ended is address - 1.)
C4_AddressedRotation ==
    (Len(thetas) = MaxThetas /\ qpc \in {"for", "done"}) =>
        /\ DOMAIN branches = 0..(MaxThetas - 1)
        /\ address > 0 =>
             \A a \in DOMAIN branches :
                 branches[a].rot - rotStart[a] =
                     IF a = address - 1 THEN thetas[address] ELSE 0
        /\ \A a \in DOMAIN branches :
               branches[a].rot = IF a < address THEN thetas[a + 1] ELSE 0
        /\ qpc = "done" => \A a \in DOMAIN branches : branches[a].rot = thetas[a + 1]

\* the circuit has finished with 8 thetas, not all equal
C4_Witness ==
    /\ qpc = "done"
    /\ Len(thetas) = MaxThetas
    /\ \E a, b \in DOMAIN branches : branches[a].rot # branches[b].rot
    /\ \A a \in DOMAIN branches : branches[a].rot > 0

\* C13: every iteration of the address loop leaves the index wires as they
\* were: between iterations and at the end, the branch that held the value a
\* on wires 0..2 after the Hadamards holds a again, for all 8 values a.
C13_IndexWiresRestored ==
    qpc \in {"for", "done"} =>
        /\ DOMAIN branches = 0..(MaxThetas - 1)
        /\ \A a \in DOMAIN branches :
               /\ branches[a].w = format03b(a)
               /\ valueOf(branches[a].w) = a

\* all 8 iterations have run with their X flips, Toffolis, CNOTs and X un-flips
C13_Witness ==
    /\ qpc = "for"
    /\ address = MaxThetas
    /\ \A k \in 0..(IndexWires - 1) : gate("PauliX", <<k>>) \in queue
    /\ {gate("Toffoli", <<0, 1, 2>>), gate("CNOT", <<0, 1>>)} \subseteq queue

wiresOf(g) == {g[2][n] : n \in 1..Len(g[2])}

\* C17: called with at most 8 thetas, PauliX, CNOT and Toffoli act on wires
\* 0..2 only, wire 3 is acted on only as the target of a controlled RY whose
\* control is an index wire, and once the circuit is through every address
\* a >= len(thetas) has received the net rotation 0.
C17_OnlyAddressedRotations ==
    /\ Len(thetas) <= MaxThetas
    /\ \A g \in queue :
          /\ g[1] \in {"PauliX", "CNOT", "Toffoli"} => wiresOf(g) \subseteq 0..(IndexWires - 1)
          /\ IndexWires \in wiresOf(g) =>
                /\ g[1] = "CRY"
                /\ Len(g[2]) = 2
                /\ g[2][1] \in 0..(IndexWires - 1)
                /\ g[2][2] = IndexWires
    /\ qpc = "done" =>
          \A a \in DOMAIN branches : a >= Len(thetas) => branches[a].rot = 0

\* the circuit has finished with three thetas: addresses 0..2 are turned,
\* addresses 3..7 exist, and gates of every kind were queued
C17_Witness ==
    /\ qpc = "done"
    /\ Len(thetas) = 3
    /\ DOMAIN branches = 0..(MaxThetas - 1)
    /\ \A a \in 0..2 : branches[a].rot # 0
    /\ \A name \in {"PauliX", "CNOT", "Toffoli", "CRY"} : \E g \in queue : g[1] = name

(***************************************************************************)
(* Fixed-point reals: the integer x stands for x / 10^8.  Products and     *)
(* quotients are formed in halves / digit by digit so that no intermediate *)
(* value leaves the 32-bit range; results are truncated toward zero.       *)
(***************************************************************************)
FxOne == 10^8

FxHalf == 10^4

Sgn(x) == IF x < 0 THEN -1 ELSE 1

\* a * b
FxMul(a, b) ==
    LET x == Abs(a)
        y == Abs(b)
        xh == x \div FxHalf
        xl == x % FxHalf
        yh == y \div FxHalf
        yl == y % FxHalf
    IN  Sgn(a) * Sgn(b) * (xh * yh + (xh * yl + xl * yh + (xl * yl) \div FxHalf) \div FxHalf)

RECURSIVE FxDivDigits(_, _, _, _)
FxDivDigits(r, b, n, acc) ==
    IF n = 0 THEN acc
    ELSE FxDivDigits((r * 10) % b, b, n - 1, acc * 10 + (r * 10) \div b)

\* a / b, for 0 < |b| <= 2
FxDiv(a, b) ==
    Sgn(a) * Sgn(b) * FxDivDigits(Abs(a) % Abs(b), Abs(b), 8, Abs(a) \div Abs(b))

\* a / n for an integer n > 0
FxDivInt(a, n) == Sgn(a) * (Abs(a) \div n)

\* sum of the alternating power series whose last term is `term`, the next
\* one being -term * x2 / (k * (k + 1))
RECURSIVE FxSeries(_, _, _, _)
FxSeries(term, x2, k, sum) ==
    IF term = 0 THEN sum
    ELSE LET next == - FxDivInt(FxMul(term, x2), k * (k + 1))
         IN  FxSeries(next, x2, k + 2, sum + next)

\* np.sin, np.cos
FxSin(x) == FxSeries(x, FxMul(x, x), 2, x)

FxCos(x) == FxSeries(FxOne, FxMul(x, x), 1, FxOne)

\* np.round_(x, decimals=5) of one element, in units of 1e-5 (half to even)
Round5(x) ==
    LET q == Abs(x) \div 1000
        r == Abs(x) % 1000
    IN  Sgn(x) * (IF r > 500 \/ (r = 500 /\ q % 2 = 1) THEN q + 1 ELSE q)

(***************************************************************************)
(* Gradients: the parameter-shift rule                                     *)
(***************************************************************************)
\* <Z> of a qubit with amplitudes of modulus c (for |0>) and s (for |1>)
expvalZ(c, s) == FxMul(c, c) - FxMul(s, s)

\* circuit(params): RY(params[0]) on wire 0 gives amplitudes (cos, sin) of
\* half the angle, RX(params[1]) on wire 1 gives (cos, -i sin);
\* qml.expval(qml.PauliZ(0) + qml.PauliZ(1))
grad_circuit(ps) ==
    expvalZ(FxCos(FxDivInt(ps[1], 2)), FxSin(FxDivInt(ps[1], 2)))
      + expvalZ(FxCos(FxDivInt(ps[2], 2)), FxSin(FxDivInt(ps[2], 2)))

\* new_params = [[params[0] + shift, params[0]-shift], [params[1] + shift, params[1]-shift]]
newParams(ps, sh) == <<<<ps[1] + sh, ps[1] - sh>>, <<ps[2] + sh, ps[2] - sh>>>>

\* gradient[0] = (circuit([new_params[0][0], params[1]]) - circuit([new_params[0][1], params[1]]))/(2*np.sin(shift))
gradient0(ps, np, sh) ==
    FxDiv(grad_circuit(<<np[1][1], ps[2]>>) - grad_circuit(<<np[1][2], ps[2]>>), 2 * FxSin(sh))

\* faulty variant: the evaluations for parameter 1 also carry the shifted parameter 0
gradient1BothShifted(ps, np, sh) ==
    FxDiv(grad_circuit(<<np[1][1], np[2][1]>>) - grad_circuit(<<np[1][2], np[2][2]>>), 2 * FxSin(sh))

\* gradient[1] = (circuit([params[0], new_params[1][0]]) - circuit([params[0], new_params[1][1]]))/(2*np.sin(shift))
gradient1(ps, np, sh) ==
    FxDiv(grad_circuit(<<ps[1], np[2][1]>>) - grad_circuit(<<ps[1], np[2][2]>>), 2 * FxSin(sh))

\* parameters are multiples of 0.25 up to MaxParam quarters
MaxParam == 4

ParamVals == {n * (FxOne \div 4) : n \in 0..MaxParam}

\* the shift of the notebook's test case, 1.23
TestShift == 123000000

ShiftVals == {FxOne \div 2, TestShift}

GradInit ==
    /\ grad_params \in [1..2 -> ParamVals]
    /\ shift \in ShiftVals
    /\ gpc = "zeros_like"
    /\ new_params = <<>>
    /\ gradient = <<>>
    /\ grad_ret = <<>>
    /\ HarnessIdle
    /\ QRAMIdle
    /\ NoiseIdle
    /\ FourierIdle
    /\ UnivIdle
    /\ SeededIdle
    /\ ErrorIdle

\* gradient = np.zeros_like(params); new_params = [...]
GradSetup ==
    /\ gpc = "zeros_like"
    /\ gradient' = <<0, 0>>
    /\ new_params' = newParams(grad_params, shift)
    /\ gpc' = "gradient0"
    /\ UNCHANGED <<grad_params, shift, grad_ret>>
    /\ UNCHANGED notGrad

GradFirst ==
    /\ gpc = "gradient0"
    /\ gradient' = [gradient EXCEPT ![1] = gradient0(grad_params, new_params, shift)]
    /\ gpc' = "gradient1"
    /\ UNCHANGED <<grad_params, shift, new_params, grad_ret>>
    /\ UNCHANGED notGrad

GradSecond ==
    /\ gpc = "gradient1"
    /\ gradient' = [gradient EXCEPT ![2] = gradient1(grad_params, new_params, shift)]
    /\ gpc' = "return"
    /\ UNCHANGED <<grad_params, shift, new_params, grad_ret>>
    /\ UNCHANGED notGrad

\* return np.round_(gradient, decimals=5).tolist()
GradReturn ==
    /\ gpc = "return"
    /\ grad_ret' = [n \in 1..2 |-> Round5(gradient[n])]
    /\ gpc' = "done"
    /\ UNCHANGED <<grad_params, shift, new_params, gradient>>
    /\ UNCHANGED notGrad

GradNext ==
    \/ GradSetup
    \/ GradFirst
    \/ GradSecond
    \/ GradReturn

SpecGrad == GradInit /\ [][GradNext]_vars

\* params with entry n changed by d, the other entry as it is
shifted(ps, n, d) == [ps EXCEPT ![n] = @ + d]

isTestCase == grad_params = <<3 * (FxOne \div 4), FxOne>> /\ shift = TestShift

\* C5: entry n of the returned list is (f(params with entry n + shift) -
\* f(params with entry n - shift)) / (2 sin(shift)) rounded to 5 decimals, the
\* other parameter unchanged in both evaluations; for params [0.75, 1.0] and
\* shift 1.23 the list is [-0.68164, -0.84147].
C5_ParameterShift ==
    gpc = "done" =>
        /\ \A n \in 1..2 :
             grad_ret[n] = Round5(FxDiv(grad_circuit(shifted(grad_params, n, shift))
                                          - grad_circuit(shifted(grad_params, n, -shift)),
                                        2 * FxSin(shift)))
        /\ isTestCase => grad_ret = <<-68164, -84147>>

\* the notebook's test case has been computed
C5_Witness == gpc = "done" /\ isTestCase /\ grad_ret # <<0, 0>>

(***************************************************************************)
(* Differentiable ZNE: noisy circuits.  The default.mixed device holds a   *)
(* 4 x 4 density matrix over the basis |wire0 wire1>; the model keeps it   *)
(* as an integer matrix `num` over a common denominator `den`.             *)
(***************************************************************************)
Dim == 0..3

Qubit == 0..1

MatMul(A, B) ==
    [r \in Dim, c \in Dim |->
        A[r, 0] * B[0, c] + A[r, 1] * B[1, c] + A[r, 2] * B[2, c] + A[r, 3] * B[3, c]]

Transpose(A) == [r \in Dim, c \in Dim |-> A[c, r]]

Trace(A) == A[0, 0] + A[1, 1] + A[2, 2] + A[3, 3]

\* the 2 x 2 matrix G acting on `wire` of the two wires
OnWire(G, wire) ==
    LET entry(r, c) ==
          IF wire = 0
          THEN (IF r % 2 = c % 2 THEN G[r \div 2, c \div 2] ELSE 0)
          ELSE (IF r \div 2 = c \div 2 THEN G[r % 2, c % 2] ELSE 0)
    IN  [r \in Dim, c \in Dim |-> entry(r, c)]

\* sqrt(2) * Hadamard, and PauliX
HadamardTimesSqrt2 == [r \in Qubit, c \in Qubit |-> IF r = 1 /\ c = 1 THEN -1 ELSE 1]

XMatrix == [r \in Qubit, c \in Qubit |-> IF r = c THEN 0 ELSE 1]

\* CNOT(wires=[0, 1]): |10> <-> |11>
CNOTMatrix ==
    LET image(c) == IF c \div 2 = 1 THEN 2 + (1 - (c % 2)) ELSE c
        entry(r, c) == IF r = image(c) THEN 1 ELSE 0
    IN  [r \in Dim, c \in Dim |-> entry(r, c)]

\* G rho G^T for a real matrix G
Conjugate(G, num) == MatMul(MatMul(G, num), Transpose(G))

\* the device's state before a circuit runs: |00><00|
ZeroState ==
    LET entry(r, c) == IF r = 0 /\ c = 0 THEN 1 ELSE 0
    IN  [num |-> [r \in Dim, c \in Dim |-> entry(r, c)], den |-> 1]

\* qml.Hadamard(wires=wire)
ApplyHadamard(st, wire) ==
    [num |-> Conjugate(OnWire(HadamardTimesSqrt2, wire), st.num), den |-> 2 * st.den]

\* qml.CNOT(wires=[0,1])
ApplyCNOT(st) == [num |-> Conjugate(CNOTMatrix, st.num), den |-> st.den]

\* probabilities are multiples of 1 / ProbDen
ProbDen == 2 * 10

\* faulty variant: the unflipped part keeps its full weight, rho + p X rho X
ApplyBitFlipUnnormalised(st, pn, wire) ==
    LET flipped == Conjugate(OnWire(XMatrix, wire), st.num)
        entry(r, c) == ProbDen * st.num[r, c] + pn * flipped[r, c]
    IN  [num |-> [r \in Dim, c \in Dim |-> entry(r, c)], den |-> ProbDen * st.den]

\* qml.BitFlip(p, wires=wire), p = pn / ProbDen: (1 - p) rho + p X rho X
ApplyBitFlip(st, pn, wire) ==
    LET flipped == Conjugate(OnWire(XMatrix, wire), st.num)
        entry(r, c) == (ProbDen - pn) * st.num[r, c] + pn * flipped[r, c]
    IN  [num |-> [r \in Dim, c \in Dim |-> entry(r, c)], den |-> ProbDen * st.den]

\* qml.math.fidelity(state0, state1) for density matrices, state1 a pure
\* state: Tr(state0 state1), as the fraction <<numerator, denominator>>
fidelity(state0, state1) ==
    <<Trace(MatMul(state0.num, state1.num)), state0.den * state1.den>>

\* np.round_ of the fraction f to 5 decimals, in units of 1e-5 (half to even)
RoundRatio5(f) ==
    LET q == (f[1] * 10^5) \div f[2]
        r == (f[1] * 10^5) % f[2]
    IN  IF 2 * r > f[2] \/ (2 * r = f[2] /\ q % 2 = 1) THEN q + 1 ELSE q

MaxProbs == 2

\* probabilities the lists are drawn from: 0, 0.2, ..., 1
ProbVals == {4 * n : n \in 0..5}

\* the notebook's test case [0.05, 0.1, 0.15, 0.2, 0.25]
TestProbs == <<1, 2, 3, 4, 5>>

NoiseInit ==
    /\ probs \in UNION {[1..n -> ProbVals] : n \in 0..MaxProbs} \cup {TestProbs}
    /\ fi = 0
    /\ npc = "zeros"
    /\ rho = ZeroState
    /\ noisy = ZeroState
    /\ fids = <<>>
    /\ fids_ret = <<>>
    /\ tape = <<>>
    /\ noisy_tape = <<>>
    /\ HarnessIdle
    /\ QRAMIdle
    /\ GradIdle
    /\ FourierIdle
    /\ UnivIdle
    /\ SeededIdle
    /\ ErrorIdle

p_ == probs[fi + 1]

\* an operation as the qnode records it: name, parameter, wires
op(name, par, owires) == <<name, par, owires>>

\* one operation of a qnode: `at` is where it stands, `to` what follows it,
\* st the device state after it
NoiseStep(at, to, st, o) ==
    /\ npc = at
    /\ rho' = st
    /\ tape' = Append(tape, o)
    /\ npc' = to
    /\ UNCHANGED <<probs, fi, noisy, fids, fids_ret, noisy_tape>>
    /\ UNCHANGED notNoise

\* fids = np.zeros(len(probs))
FidsZeros ==
    /\ npc = "zeros"
    /\ fids' = [n \in 1..Len(probs) |-> <<0, 1>>]
    /\ npc' = "for"
    /\ UNCHANGED <<probs, fi, rho, noisy, fids_ret, tape, noisy_tape>>
    /\ UNCHANGED notNoise

\* for i, p in enumerate(probs): bitflip_circuit(p) starts on the reset device
FidsNext ==
    /\ npc = "for"
    /\ fi < Len(probs)
    /\ rho' = ZeroState
    /\ tape' = <<>>
    /\ npc' = "bitflip_circuit.Hadamard"
    /\ UNCHANGED <<probs, fi, noisy, fids, fids_ret, noisy_tape>>
    /\ UNCHANGED notNoise

\* faulty variant: the Hadamard of bitflip_circuit is put on wire 1
NoisyHadamardOnWire1 ==
    NoiseStep("bitflip_circuit.Hadamard", "bitflip_circuit.CNOT",
              ApplyHadamard(rho, 1), op("Hadamard", 0, <<1>>))

\* bitflip_circuit: qml.Hadamard(wires=0)
NoisyHadamard ==
    NoiseStep("bitflip_circuit.Hadamard", "bitflip_circuit.CNOT",
              ApplyHadamard(rho, 0), op("Hadamard", 0, <<0>>))

\* bitflip_circuit: qml.CNOT(wires=[0,1])
NoisyCNOT ==
    NoiseStep("bitflip_circuit.CNOT", "bitflip_circuit.BitFlip0",
              ApplyCNOT(rho), op("CNOT", 0, <<0, 1>>))

\* bitflip_circuit: qml.BitFlip(p, wires=0)
NoisyBitFlip0 ==
    NoiseStep("bitflip_circuit.BitFlip0", "bitflip_circuit.BitFlip1",
              ApplyBitFlip(rho, p_, 0), op("BitFlip", p_, <<0>>))

\* faulty variant: the error on wire 1 is left out
NoisyBitFlip1Missing ==
    /\ npc = "bitflip_circuit.BitFlip1"
    /\ npc' = "bitflip_circuit.state"
    /\ UNCHANGED <<probs, fi, rho, noisy, fids, fids_ret, tape, noisy_tape>>
    /\ UNCHANGED notNoise

\* bitflip_circuit: qml.BitFlip(p, wires=1)
NoisyBitFlip1 ==
    NoiseStep("bitflip_circuit.BitFlip1", "bitflip_circuit.state",
              ApplyBitFlip(rho, p_, 1), op("BitFlip", p_, <<1>>))

\* bitflip_circuit: return qml.state(); then circuit() starts on the reset device
NoisyReturn ==
    /\ npc = "bitflip_circuit.state"
    /\ noisy' = rho
    /\ noisy_tape' = tape
    /\ rho' = ZeroState
    /\ tape' = <<>>
    /\ npc' = "circuit.Hadamard"
    /\ UNCHANGED <<probs, fi, fids, fids_ret>>
    /\ UNCHANGED notNoise

\* circuit: qml.Hadamard(wires=0)
IdealHadamard ==
    NoiseStep("circuit.Hadamard", "circuit.CNOT", ApplyHadamard(rho, 0), op("Hadamard", 0, <<0>>))

\* circuit: qml.CNOT(wires=[0, 1])
IdealCNOT ==
    NoiseStep("circuit.CNOT", "fidelity", ApplyCNOT(rho), op("CNOT", 0, <<0, 1>>))

\* fid = qml.math.fidelity(bitflip_circuit(p), circuit()); fids[i] = fid
FidsStore ==
    /\ npc = "fidelity"
    /\ fids' = [fids EXCEPT ![fi + 1] = fidelity(noisy, rho)]
    /\ fi' = fi + 1
    /\ npc' = "for"
    /\ UNCHANGED <<probs, rho, noisy, fids_ret, tape, noisy_tape>>
    /\ UNCHANGED notNoise

\* return np.round_(fids, decimals=5).tolist()
FidsReturn ==
    /\ npc = "for"
    /\ fi = Len(probs)
    /\ fids_ret' = [n \in 1..Len(fids) |-> RoundRatio5(fids[n])]
    /\ npc' = "done"
    /\ UNCHANGED <<probs, fi, rho, noisy, fids, tape, noisy_tape>>
    /\ UNCHANGED notNoise

NoiseNext ==
    \/ FidsZeros
    \/ FidsNext
    \/ NoisyHadamard
    \/ NoisyCNOT
    \/ NoisyBitFlip0
    \/ NoisyBitFlip1
    \/ NoisyReturn
    \/ IdealHadamard
    \/ IdealCNOT
    \/ FidsStore
    \/ FidsReturn

SpecNoise == NoiseInit /\ [][NoiseNext]_vars

\* the fidelity of the Bell state (|00> + |11>)/sqrt(2) with itself after an
\* independent flip of probability pn / ProbDen on each qubit: flipping both
\* qubits or none gives the Bell state back, flipping one an orthogonal state
bellFidelity(pn) == <<(ProbDen - pn) * (ProbDen - pn) + pn * pn, ProbDen * ProbDen>>

\* C6: fidelities(probs) has the length of probs; entry i is the fidelity of
\* circuit()'s state and bitflip_circuit(probs[i])'s state rounded to 5
\* decimals, in input order; [0.05, 0.1, 0.15, 0.2, 0.25] gives
\* [0.905, 0.82, 0.745, 0.68, 0.625].
C6_Fidelities ==
    npc = "done" =>
        /\ Len(fids_ret) = Len(probs)
        /\ \A n \in 1..Len(probs) : fids_ret[n] = RoundRatio5(bellFidelity(probs[n]))
        /\ probs = TestProbs => fids_ret = <<90500, 82000, 74500, 68000, 62500>>

\* the notebook's test case has been computed
C6_Witness == npc = "done" /\ probs = TestProbs /\ Len(fids_ret) = 5

\* C15: for probabilities in [0, 1] every fidelity computed and every value
\* fidelities returns lies in [0, 1].
C15_FidelityInUnitInterval ==
    /\ \A n \in 1..Len(probs) : 0 <= probs[n] /\ probs[n] <= ProbDen
    /\ \A n \in 1..Len(fids) : 0 <= fids[n][1] /\ fids[n][1] <= fids[n][2]
    /\ \A n \in 1..Len(fids_ret) : 0 <= fids_ret[n] /\ fids_ret[n] <= 10^5

\* fidelities has returned a list holding the value 1 and a value below 1
C15_Witness ==
    /\ npc = "done"
    /\ \E n \in 1..Len(fids_ret) : fids_ret[n] = 10^5
    /\ \E n \in 1..Len(fids_ret) : fids_ret[n] < 10^5

\* equality of two device states given as fractions
sameState(A, B) == \A r \in Dim, c \in Dim : A.num[r, c] * B.den = B.num[r, c] * A.den

\* the operations of circuit()
circuitOps == <<op("Hadamard", 0, <<0>>), op("CNOT", 0, <<0, 1>>)>>

\* C16: bitflip_circuit(p) applies the operations of circuit() in the same
\* order and then a bit flip of probability p on wire 0 and one on wire 1;
\* bitflip_circuit(0) returns the state circuit() returns and their fidelity
\* is 1.
C16_BitflipCircuitExtendsCircuit ==
    /\ npc = "fidelity" =>
          /\ tape = circuitOps
          /\ noisy_tape = tape \o <<op("BitFlip", p_, <<0>>), op("BitFlip", p_, <<1>>)>>
          /\ p_ = 0 => sameState(noisy, rho) /\ fidelity(noisy, rho)[1] = fidelity(noisy, rho)[2]
    /\ \A n \in 1..fi : probs[n] = 0 => fids[n][1] = fids[n][2]
    /\ npc = "done" => \A n \in 1..Len(probs) : probs[n] = 0 => fids_ret[n] = 10^5

\* both circuits have run for the probability 0
C16_Witness ==
    /\ npc = "fidelity"
    /\ p_ = 0
    /\ Len(noisy_tape) = 4
    /\ Len(tape) = 2

(***************************************************************************)
(* Fourier spectrum: distance in Fourier space.  Complex numbers are pairs *)
(* <<re, im>> of integers.  qml.fourier.coefficients is library code: its  *)
(* result is an input of the model, the coefficients of a real function in *)
(* the order [b_0, b_1, b_2, b_3, b_-3, b_-2, b_-1].                       *)
(***************************************************************************)
\* degree=3
Degree == 3

NumCoeffs == 2 * Degree + 1

CSub(x, y) == <<x[1] - y[1], x[2] - y[2]>>

CConj(x) == <<x[1], -x[2]>>

\* (np.abs(z))**2
AbsSquared(z) == z[1] * z[1] + z[2] * z[2]

\* position (1-based) of frequency w in the conventional order
posOf(w) == IF w >= 0 THEN w + 1 ELSE NumCoeffs + w + 1

MaxCoef == 1

\* values of the one non-zero entry of list_of_coeffs
CoefVals == {<<a, b>> : a \in 0..MaxCoef, b \in 0..MaxCoef}

\* values of the circuit's coefficients of positive frequency
CircuitVals == {<<0, 0>>, <<1, 0>>, <<0, 1>>, <<1, 1>>}

\* coefficient lists of a real function: b_0 real, b_-w the conjugate of b_w
RealSpectra ==
    {[n \in 1..NumCoeffs |->
        IF n = 1 THEN <<b0, 0>>
        ELSE IF n <= Degree + 1 THEN pos[n - 1]
        ELSE CConj(pos[NumCoeffs + 1 - n])] :
            b0 \in 0..1, pos \in [1..Degree -> CircuitVals]}

\* lists with at most one non-zero entry
SparseLists ==
    {[n \in 1..NumCoeffs |-> IF n = at THEN v ELSE <<0, 0>>] : at \in 1..NumCoeffs, v \in CoefVals}

FourierInit ==
    /\ list_of_coeffs \in SparseLists
    /\ coefficients \in RealSpectra
    /\ fpc = "res = 0"
    /\ fidx = 0
    /\ res = 0
    /\ HarnessIdle
    /\ QRAMIdle
    /\ GradIdle
    /\ NoiseIdle
    /\ UnivIdle
    /\ SeededIdle
    /\ ErrorIdle

\* faulty variant: the circuit's coefficients are read in the order of frequencies
\* -3..3 (as after an fftshift)
termShifted(list_of_coef, coefs, n) ==
    AbsSquared(CSub(list_of_coef[n + 1], coefs[((n + Degree + 1) % NumCoeffs) + 1]))

\* (np.abs(list_of_coef[i]-coefficients[i]))**2
term(list_of_coef, coefs, n) ==
    AbsSquared(CSub(list_of_coef[n + 1], coefs[n + 1]))

\* res = 0
SquaredDistanceStart ==
    /\ fpc = "res = 0"
    /\ res' = 0
    /\ fidx' = 0
    /\ fpc' = "for"
    /\ UNCHANGED <<list_of_coeffs, coefficients>>
    /\ UNCHANGED notFourier

\* for i in range(len(list_of_coef)): res += ...
SquaredDistanceAdd ==
    /\ fpc = "for"
    /\ fidx < Len(list_of_coeffs)
    /\ res' = res + term(list_of_coeffs, coefficients, fidx)
    /\ fidx' = fidx + 1
    /\ UNCHANGED <<list_of_coeffs, coefficients, fpc>>
    /\ UNCHANGED notFourier

\* return res
SquaredDistanceReturn ==
    /\ fpc = "for"
    /\ fidx = Len(list_of_coeffs)
    /\ fpc' = "done"
    /\ UNCHANGED <<list_of_coeffs, coefficients, fidx, res>>
    /\ UNCHANGED notFourier

FourierNext ==
    \/ SquaredDistanceStart
    \/ SquaredDistanceAdd
    \/ SquaredDistanceReturn

SpecFourier == FourierInit /\ [][FourierNext]_vars

freqSum(w) ==
    LET RECURSIVE go(_)
        go(v) == IF v > Degree THEN 0
                 ELSE AbsSquared(CSub(coefficients[posOf(v)], list_of_coeffs[posOf(v)])) + go(v + 1)
    IN  go(w)

\* C7: the result is the sum over the frequencies w = -3..3 of |c_w - b_w|^2,
\* c_w the entry of list_of_coeffs and b_w the circuit's coefficient of
\* frequency w, each frequency counted once.
C7_SquaredDistance == fpc = "done" => res = freqSum(-Degree)

\* the loop has finished on a list whose non-zero entry belongs to a negative
\* frequency and meets a circuit coefficient that differs from its conjugate
C7_Witness ==
    /\ fpc = "done"
    /\ \E n \in (Degree + 2)..NumCoeffs :
         /\ list_of_coeffs[n] # <<0, 0>>
         /\ coefficients[n] # coefficients[NumCoeffs + 2 - n]

(***************************************************************************)
(* Universality: working with one qubit.  Angles are multiples of pi/2     *)
(* (the integer k stands for k * pi/2), so every matrix entry lies in      *)
(* Z[zeta]/2^n with zeta = e^{i pi/4}: a number a0 + a1 zeta + a2 zeta^2 + *)
(* a3 zeta^3 is the function [0..3 -> Int], zeta^4 = -1.  A matrix is a    *)
(* record of a 2 x 2 numerator matrix and an integer denominator.          *)
(***************************************************************************)
Z8 == 0..3

Z8Zero == [n \in Z8 |-> 0]

\* zeta^k
Z8Pow(k) ==
    LET e == k % 8
    IN  [n \in Z8 |-> IF n = e % 4 THEN (IF e < 4 THEN 1 ELSE -1) ELSE 0]

Z8Add(x, y) == [n \in Z8 |-> x[n] + y[n]]

Z8Sub(x, y) == [n \in Z8 |-> x[n] - y[n]]

Z8Scale(c, x) == [n \in Z8 |-> c * x[n]]

Z8Mul(x, y) ==
    LET part(n, j) == x[j] * y[(n - j) % 4] * (IF j > n THEN -1 ELSE 1)
    IN  [n \in Z8 |-> part(n, 0) + part(n, 1) + part(n, 2) + part(n, 3)]

\* the imaginary unit, zeta^2
Z8I == Z8Pow(2)

\* 2 * np.cos(h * pi/4) and 2 * np.sin(h * pi/4)
cosTimes2(h) == Z8Add(Z8Pow(h), Z8Pow(-h))

sinTimes2(h) == Z8Mul(Z8Pow(-2), Z8Sub(Z8Pow(h), Z8Pow(-h)))

\* qml.matrix(qml.RZ(k, wires=0)): diag(e^{-i k pi/4}, e^{i k pi/4})
RZ(k) ==
    LET entry(r, c) == IF r # c THEN Z8Zero ELSE IF r = 0 THEN Z8Pow(-k) ELSE Z8Pow(k)
    IN  [num |-> [r \in Qubit, c \in Qubit |-> entry(r, c)], den |-> 1]

\* qml.matrix(qml.RX(k, wires=0)): [[cos, -i sin], [-i sin, cos]] of k pi/4
RX(k) ==
    LET entry(r, c) == IF r = c THEN cosTimes2(k) ELSE Z8Mul(Z8Pow(-2), sinTimes2(k))
    IN  [num |-> [r \in Qubit, c \in Qubit |-> entry(r, c)], den |-> 2]

\* np.matmul(A, B)
matmul(A, B) ==
    LET entry(r, c) == Z8Add(Z8Mul(A.num[r, 0], B.num[0, c]), Z8Mul(A.num[r, 1], B.num[1, c]))
    IN  [num |-> [r \in Qubit, c \in Qubit |-> entry(r, c)], den |-> A.den * B.den]

\* U * com for the scalar com = [num, den]
timesScalar(A, z) ==
    LET entry(r, c) == Z8Mul(A.num[r, c], z.num)
    IN  [num |-> [r \in Qubit, c \in Qubit |-> entry(r, c)], den |-> A.den * z.den]

\* com = np.cos(phi) + 1j*np.sin(phi); the angle k pi/2 is 2k eighths of a turn
comOf(phi) ==
    [num |-> Z8Add(cosTimes2(2 * phi), Z8Mul(Z8I, sinTimes2(2 * phi))), den |-> 2]

\* equality of two matrices given as fractions
sameMatrix(A, B) ==
    \A r \in Qubit, c \in Qubit : Z8Scale(B.den, A.num[r, c]) = Z8Scale(A.den, B.num[r, c])

\* a token of JSON text: a number, or one of the signs [ , ]
token(kind, x) == <<kind, x>>

\* json.dumps of a list of numbers, as a list of tokens
jsonDumps(xs) ==
    LET RECURSIVE go(_)
        go(n) == IF n > Len(xs) THEN <<token("]", 0)>>
                 ELSE (IF n = 1 THEN <<>> ELSE <<token(",", 0)>>)
                        \o <<token("number", xs[n])>> \o go(n + 1)
    IN  <<token("[", 0)>> \o go(1)

\* json.loads of such a list of tokens
jsonLoads(toks) ==
    LET RECURSIVE go(_)
        go(n) == IF n > Len(toks) THEN <<>>
                 ELSE (IF toks[n][1] = "number" THEN <<toks[n][2]>> ELSE <<>>) \o go(n + 1)
    IN  go(1)

\* angles are k * pi/2, k in 0..7: one full period of RZ and RX
Angles == 0..7

UnivInit ==
    /\ uparams = <<>>
    /\ solution_output = <<>>
    /\ upc = "train_parameters"
    /\ unpacked = <<>>
    /\ com = <<>>
    /\ U = <<>>
    /\ matrix1 = <<>>
    /\ HarnessIdle
    /\ QRAMIdle
    /\ GradIdle
    /\ NoiseIdle
    /\ FourierIdle
    /\ SeededIdle
    /\ ErrorIdle

\* run: params = [float(p) for p in train_parameters(matrix)]; the optimiser
\* returns some array of four numbers
TrainParameters ==
    /\ upc = "train_parameters"
    /\ uparams' \in [1..4 -> Angles]
    /\ upc' = "json.dumps"
    /\ UNCHANGED <<solution_output, unpacked, com, U, matrix1>>
    /\ UNCHANGED notUniv

\* run: return json.dumps(params)
RunReturn ==
    /\ upc = "json.dumps"
    /\ solution_output' = jsonDumps(uparams)
    /\ upc' = "check"
    /\ UNCHANGED <<uparams, unpacked, com, U, matrix1>>
    /\ UNCHANGED notUniv

\* alpha, beta, gamma, phi = params
unpack(params) ==
    [alpha |-> params[1], beta |-> params[2], gamma |-> params[3], phi |-> params[4]]

\* check: get_matrix(json.loads(solution_output)) is entered and unpacks
GetMatrixUnpack ==
    /\ upc = "check"
    /\ unpacked' = unpack(jsonLoads(solution_output))
    /\ upc' = "com"
    /\ UNCHANGED <<uparams, solution_output, com, U, matrix1>>
    /\ UNCHANGED notUniv

\* com = np.cos(phi) + 1j*np.sin(phi)
GetMatrixCom ==
    /\ upc = "com"
    /\ com' = comOf(unpacked.phi)
    /\ upc' = "matmul"
    /\ UNCHANGED <<uparams, solution_output, unpacked, U, matrix1>>
    /\ UNCHANGED notUniv

\* np.matmul(RZ(alpha), np.matmul(RX(beta), RZ(gamma)))
product(up) == matmul(RZ(up.alpha), matmul(RX(up.beta), RZ(up.gamma)))

\* U = np.matmul(...)
GetMatrixMatmul ==
    /\ upc = "matmul"
    /\ U' = product(unpacked)
    /\ upc' = "return"
    /\ UNCHANGED <<uparams, solution_output, unpacked, com, matrix1>>
    /\ UNCHANGED notUniv

\* return U*com; check: matrix1 = get_matrix(...)
GetMatrixReturn ==
    /\ upc = "return"
    /\ matrix1' = timesScalar(U, com)
    /\ upc' = "done"
    /\ UNCHANGED <<uparams, solution_output, unpacked, com, U>>
    /\ UNCHANGED notUniv

UnivNext ==
    \/ TrainParameters
    \/ RunReturn
    \/ GetMatrixUnpack
    \/ GetMatrixCom
    \/ GetMatrixMatmul
    \/ GetMatrixReturn

SpecUniv == UnivInit /\ [][UnivNext]_vars

\* e^{i phi} as a scalar
phase(phi) == [num |-> Z8Pow(2 * phi), den |-> 1]

\* C9: get_matrix(params) is e^{i phi} R_Z(gamma) R_X(beta) R_Z(alpha): the
\* rotation by alpha acts first, then R_X(beta), then the rotation by gamma
\* (alpha, beta, gamma, phi as get_matrix names the entries of params).
C9_DecompositionOrder ==
    upc = "done" =>
        sameMatrix(matrix1,
                   timesScalar(matmul(RZ(unpacked.gamma),
                                      matmul(RX(unpacked.beta), RZ(unpacked.alpha))),
                               phase(unpacked.phi)))

\* C10: the list train_parameters produces and get_matrix consumes is ordered
\* (phi, alpha, beta, gamma): position 0 is the global phase, position 2 the
\* angle of R_X and positions 1 and 3 the angles of the two R_Z (whichever of
\* the two acts first).
C10_ListOrder ==
    upc = "done" =>
        \/ sameMatrix(matrix1,
                      timesScalar(matmul(RZ(uparams[4]), matmul(RX(uparams[3]), RZ(uparams[2]))),
                                  phase(uparams[1])))
        \/ sameMatrix(matrix1,
                      timesScalar(matmul(RZ(uparams[2]), matmul(RX(uparams[3]), RZ(uparams[4]))),
                                  phase(uparams[1])))

(***************************************************************************)
(* Universality: the test loop with its random generator.  The notebook    *)
(* seeds numpy's global generator once, np.random.seed(1967); every        *)
(* np.random.rand(4), in train_parameters and in check, advances it.  The  *)
(* generator is MT19937: its state after the seed is a function of the     *)
(* number of values served, so the model keeps that number.  Reals are     *)
(* fixed point (units of 1e-8), complex numbers pairs <<re, im>>.          *)
(***************************************************************************)
\* what the k-th call np.random.rand(4) returns after np.random.seed(1967),
\* k = 0, 1, ...: MT19937 seeded by init_genrand(1967), each value
\* (a * 2^26 + b) / 2^53 from two 32-bit outputs a >> 5 and b >> 6
RandomState1967 ==
    << <<72511957, 57312068, 64486119, 55801009>>,
       <<94368854, 93863944, 52819152, 58174280>>,
       <<82406933, 17044177, 67285734, 44325609>>,
       <<57884644, 2452390, 89027037, 48127198>>,
       <<41295136, 15555030, 86603304, 46587136>>,
       <<99883138, 99303012, 32336432, 17635648>>,
       <<79060408, 95485982, 29783044, 53394009>>,
       <<2426884, 11281289, 22895106, 46075569>>,
       <<33511258, 51966709, 37208835, 11456585>> >>

\* np.random.rand(4) when the generator has served `calls` calls
rand4(calls) == RandomState1967[calls + 1]

\* np.pi
FxPi == 314159265

\* epochs = 1000
Epochs == 1000

\* lr = 0.01 = 1 / LrDen
LrDen == 100

\* a / b for 0 < |b| < 4
FxDivAny(a, b) == IF Abs(b) > 2 * FxOne THEN FxDiv(a \div 2, b \div 2) ELSE FxDiv(a, b)

\* largest integer whose square is at most n, between lo and hi
RECURSIVE ISqrt(_, _, _)
ISqrt(n, lo, hi) ==
    IF lo >= hi THEN lo
    ELSE LET mid == (lo + hi + 1) \div 2
         IN  IF mid * mid <= n THEN ISqrt(n, mid, hi) ELSE ISqrt(n, lo, mid - 1)

\* sqrt(x) for 0 <= x < 16: a first value of four digits, then Newton steps
FxSqrt(x) ==
    IF x = 0 THEN 0
    ELSE LET y0 == ISqrt(x, 1, 40000) * FxHalf
             y1 == (y0 + FxDivAny(x, y0)) \div 2
             y2 == (y1 + FxDivAny(x, y1)) \div 2
         IN  (y2 + FxDivAny(x, y2)) \div 2

RECURSIVE FxMaxAbs(_, _)
FxMaxAbs(xs, n) ==
    IF n = 0 THEN 0
    ELSE LET m == FxMaxAbs(xs, n - 1) IN IF Abs(xs[n]) > m THEN Abs(xs[n]) ELSE m

RECURSIVE FxSumSquares(_, _, _)
FxSumSquares(xs, m, n) ==
    IF n = 0 THEN 0
    ELSE LET q == FxDiv(xs[n], m) IN FxMul(q, q) + FxSumSquares(xs, m, n - 1)

\* np.linalg.norm / np.abs of a complex number: the square root of the sum of
\* the squares of the entries xs (each below 2), scaled by the largest entry
FxNorm(xs) ==
    LET m == FxMaxAbs(xs, Len(xs))
    IN  IF m = 0 THEN 0 ELSE FxMul(m, FxSqrt(FxSumSquares(xs, m, Len(xs))))

CxAdd(x, y) == <<x[1] + y[1], x[2] + y[2]>>

CxMul(x, y) == <<FxMul(x[1], y[1]) - FxMul(x[2], y[2]), FxMul(x[1], y[2]) + FxMul(x[2], y[1])>>

\* qml.matrix(qml.RZ(t, wires=0)) = diag(e^{-it/2}, e^{it/2})
FxRZ(t) ==
    LET c == FxCos(FxDivInt(t, 2))
        s == FxSin(FxDivInt(t, 2))
    IN  [r \in Qubit, k \in Qubit |-> IF r # k THEN <<0, 0>> ELSE IF r = 0 THEN <<c, -s>> ELSE <<c, s>>]

\* qml.matrix(qml.RX(t, wires=0)) = [[cos t/2, -i sin t/2], [-i sin t/2, cos t/2]]
FxRX(t) ==
    LET c == FxCos(FxDivInt(t, 2))
        s == FxSin(FxDivInt(t, 2))
    IN  [r \in Qubit, k \in Qubit |-> IF r = k THEN <<c, 0>> ELSE <<0, -s>>]

\* com = np.cos(phi) + 1j*np.sin(phi)
FxCom(phi) == <<FxCos(phi), FxSin(phi)>>

\* the derivatives of the three by the angle, as autograd forms them
FxDRZ(t) ==
    LET c == FxCos(FxDivInt(t, 2))
        s == FxSin(FxDivInt(t, 2))
    IN  [r \in Qubit, k \in Qubit |->
            IF r # k THEN <<0, 0>>
            ELSE IF r = 0 THEN <<FxDivInt(-s, 2), FxDivInt(-c, 2)>>
            ELSE <<FxDivInt(-s, 2), FxDivInt(c, 2)>>]

FxDRX(t) ==
    LET c == FxCos(FxDivInt(t, 2))
        s == FxSin(FxDivInt(t, 2))
    IN  [r \in Qubit, k \in Qubit |-> IF r = k THEN <<FxDivInt(-s, 2), 0>> ELSE <<0, FxDivInt(-c, 2)>>]

FxDCom(phi) == <<-FxSin(phi), FxCos(phi)>>

\* np.matmul of 2 x 2 complex matrices
FxMatmul(A, B) ==
    [r \in Qubit, k \in Qubit |-> CxAdd(CxMul(A[r, 0], B[0, k]), CxMul(A[r, 1], B[1, k]))]

\* np.matmul(A, np.matmul(B, C)) * z
FxProduct(A, B, C, z) ==
    LET P == FxMatmul(A, FxMatmul(B, C))
    IN  [r \in Qubit, k \in Qubit |-> CxMul(P[r, k], z)]

\* get_matrix(params) in fixed point: alpha, beta, gamma, phi = params
FxGetMatrix(ps) == FxProduct(FxRZ(ps[1]), FxRX(ps[2]), FxRZ(ps[3]), FxCom(ps[4]))

\* the derivative of get_matrix(params) by params[n]
FxGetMatrixD(ps, n) ==
    FxProduct(IF n = 1 THEN FxDRZ(ps[1]) ELSE FxRZ(ps[1]),
              IF n = 2 THEN FxDRX(ps[2]) ELSE FxRX(ps[2]),
              IF n = 3 THEN FxDRZ(ps[3]) ELSE FxRZ(ps[3]),
              IF n = 4 THEN FxDCom(ps[4]) ELSE FxCom(ps[4]))

\* the four entries of a matrix, row by row
entries(A) == <<A[0, 0], A[0, 1], A[1, 0], A[1, 1]>>

\* np.real(np.subtract(U, matrix)), the target a real matrix
realDif(target, matrix) == [n \in 1..4 |-> entries(target)[n] - entries(matrix)[n][1]]

\* error(U, params) = np.linalg.norm(np.real(dif))
FxError(target, ps) == FxNorm(realDif(target, FxGetMatrix(ps)))

\* qml.grad(error, argnum=1)(U, params): the norm's derivative is dif / norm,
\* np.real passes the real part of the derivative of -get_matrix
FxGrad(target, ps) ==
    LET dif == realDif(target, FxGetMatrix(ps))
        norm == FxNorm(dif)
        unit == [n \in 1..4 |-> FxDivAny(dif[n], norm)]
        part(d) == FxMul(unit[1], d[1][1]) + FxMul(unit[2], d[2][1])
                     + FxMul(unit[3], d[3][1]) + FxMul(unit[4], d[4][1])
    IN  [n \in 1..4 |-> - part(entries(FxGetMatrixD(ps, n)))]

\* the matrices of the notebook's test cases, json.loads of the text
matrixOf(name) ==
    IF name = "H"
    THEN [r \in Qubit, k \in Qubit |-> IF r = 1 /\ k = 1 THEN -70710678 ELSE 70710678]
    ELSE [r \in Qubit, k \in Qubit |-> IF r # k THEN 0 ELSE IF r = 0 THEN FxOne ELSE -FxOne]

\* np.allclose(A, B, rtol, atol) of a complex matrix A and a real matrix B
FxAllclose(A, B, rtol, atol) ==
    \A n \in 1..4 :
        FxNorm(<<entries(A)[n][1] - entries(B)[n], entries(A)[n][2]>>)
            <= atol + FxMul(rtol, Abs(entries(B)[n]))

\* np.allclose(A, B) of two complex matrices, default tolerances
FxAllcloseComplex(A, B) ==
    \A n \in 1..4 :
        FxNorm(<<entries(A)[n][1] - entries(B)[n][1], entries(A)[n][2] - entries(B)[n][2]>>)
            <= AtolDefaultE8 + FxMul(FxOne \div RtolDefaultDen, FxNorm(entries(B)[n]))

\* the two asserts of check, the generator having served `calls` calls
checkAsserts(calls, solution, expected) ==
    /\ ~FxAllcloseComplex(FxGetMatrix(rand4(calls)), FxGetMatrix(rand4(calls + 1)))
    /\ FxAllclose(FxGetMatrix(jsonLoads(solution)), matrixOf(expected),
                  FxOne \div RtolDefaultDen, AtolE8("universality"))

\* the notebook's test_cases has two entries
NumTests == 2

\* test cases: the notebook's two, and one with a wrong expected output
TestCaseVals == {<<"H", "H">>, <<"Z", "Z">>, <<"Z", "H">>}

SeededInit ==
    /\ rng = 0
    /\ scases \in [1..NumTests -> TestCaseVals]
    /\ si = 0
    /\ spc = "for"
    /\ train_params = <<>>
    /\ epoch = 0
    /\ soutput = <<>>
    /\ sprinted = <<>>
    /\ souts = <<>>
    /\ HarnessIdle
    /\ QRAMIdle
    /\ GradIdle
    /\ NoiseIdle
    /\ FourierIdle
    /\ UnivIdle
    /\ ErrorIdle

input_ == scases[si + 1][1]

expected_output == scases[si + 1][2]

\* for i, (input_, expected_output) in enumerate(test_cases): print("Running ...")
SeededForNext ==
    /\ spc = "for"
    /\ si < Len(scases)
    /\ sprinted' = Append(sprinted, line(si, "Running", 0, 0))
    /\ spc' = "train_parameters"
    /\ UNCHANGED <<rng, scases, si, train_params, epoch, soutput, souts>>
    /\ UNCHANGED notSeeded

SeededForEnd ==
    /\ spc = "for"
    /\ si = Len(scases)
    /\ spc' = "done"
    /\ UNCHANGED <<rng, scases, si, train_params, epoch, soutput, sprinted, souts>>
    /\ UNCHANGED notSeeded

\* run -> train_parameters: params = np.random.rand(4) * np.pi
TrainDraw ==
    /\ spc = "train_parameters"
    /\ train_params' = [n \in 1..4 |-> FxMul(rand4(rng)[n], FxPi)]
    /\ rng' = rng + 1
    /\ epoch' = 0
    /\ spc' = "epochs"
    /\ UNCHANGED <<scases, si, soutput, sprinted, souts>>
    /\ UNCHANGED notSeeded

\* for epoch in range(epochs): params -= lr * grad(U, params)
TrainEpoch ==
    /\ spc = "epochs"
    /\ epoch < Epochs
    /\ train_params' =
         LET g == FxGrad(matrixOf(input_), train_params)
         IN  [n \in 1..4 |-> train_params[n] - FxDivInt(g[n], LrDen)]
    /\ epoch' = epoch + 1
    /\ UNCHANGED <<rng, scases, si, spc, soutput, sprinted, souts>>
    /\ UNCHANGED notSeeded

\* return params; run: return json.dumps([float(p) for p in ...])
SeededRunReturn ==
    /\ spc = "epochs"
    /\ epoch = Epochs
    /\ soutput' = jsonDumps(train_params)
    /\ souts' = Append(souts, [case |-> si, input |-> input_, out |-> jsonDumps(train_params)])
    /\ spc' = "check"
    /\ UNCHANGED <<rng, scases, si, train_params, epoch, sprinted>>
    /\ UNCHANGED notSeeded

\* else: message = 0; if message == check(output, expected_output): ...
\* check draws np.random.rand(4) twice and returns None
SeededCheckReturns ==
    /\ spc = "check"
    /\ checkAsserts(rng, soutput, expected_output)
    /\ rng' = rng + 2
    /\ sprinted' = Append(sprinted,
                          IF message = checkReturn
                          THEN line(si, "Wrong Answer", 0, 0)
                          ELSE line(si, "Correct!", 0, 0))
    /\ si' = si + 1
    /\ spc' = "for"
    /\ UNCHANGED <<scases, train_params, epoch, soutput, souts>>
    /\ UNCHANGED notSeeded

\* check draws np.random.rand(4) twice and one of its asserts raises
SeededCheckRaises ==
    /\ spc = "check"
    /\ ~checkAsserts(rng, soutput, expected_output)
    /\ rng' = rng + 2
    /\ spc' = "AssertionError"
    /\ UNCHANGED <<scases, si, train_params, epoch, soutput, sprinted, souts>>
    /\ UNCHANGED notSeeded

SeededNext ==
    \/ SeededForNext
    \/ SeededForEnd
    \/ TrainDraw
    \/ TrainEpoch
    \/ SeededRunReturn
    \/ SeededCheckReturns
    \/ SeededCheckRaises

SpecSeeded == SeededInit /\ [][SeededNext]_vars

\* C11: run's output is a function of the test input alone: two runs of the
\* same harness loop on the same input return the same output, whatever was
\* executed before each of them.
C11_OutputDependsOnInputAlone ==
    \A j \in 1..Len(souts), k \in 1..Len(souts) :
        souts[j].input = souts[k].input => souts[j].out = souts[k].out

(***************************************************************************)
(* Universality: the error function, in the exact arithmetic of get_matrix *)
(* (angles k * pi/2, entries in Z[zeta]/den).  A real number is kept as    *)
(* the pair <<p, q>> standing for p + q sqrt(2), over a denominator.       *)
(***************************************************************************)
\* get_matrix(params)
get_matrix(ps) == timesScalar(product(unpack(ps)), comOf(unpack(ps).phi))

\* np.subtract(A, B)
subtract(A, B) ==
    [num |-> [r \in Qubit, c \in Qubit |->
                 Z8Sub(Z8Scale(B.den, A.num[r, c]), Z8Scale(A.den, B.num[r, c]))],
     den |-> A.den * B.den]

\* np.real of the entry x: twice its real part, x0 + (x1 - x3) / sqrt(2)
realTimes2(x) == <<2 * x[0], x[1] - x[3]>>

\* the square of p + q sqrt(2)
R2Square(x) == <<x[1] * x[1] + 2 * x[2] * x[2], 2 * x[1] * x[2]>>

R2Add(x, y) == <<x[1] + y[1], x[2] + y[2]>>

\* p + q sqrt(2) >= 0
R2NonNegative(x) ==
    CASE x[1] >= 0 /\ x[2] >= 0 -> TRUE
      [] x[1] < 0 /\ x[2] < 0   -> FALSE
      [] x[1] >= 0              -> x[1] * x[1] >= 2 * x[2] * x[2]
      [] OTHER                  -> 2 * x[2] * x[2] >= x[1] * x[1]

\* np.linalg.norm(np.real(D)): the Frobenius norm, the non-negative square
\* root of the sum of the squares; kept as that sum over the squared
\* denominator
normOfReal(D) ==
    [square |-> R2Add(R2Add(R2Square(realTimes2(D.num[0, 0])), R2Square(realTimes2(D.num[0, 1]))),
                      R2Add(R2Square(realTimes2(D.num[1, 0])), R2Square(realTimes2(D.num[1, 1])))),
     den |-> 4 * D.den * D.den]

\* goal matrices: Hadamard and PauliZ (the notebook's test cases) and
\* R_Z(pi) = diag(-i, i), each written by its decomposition
GoalParams == {<<1, 1, 1, 1>>, <<2, 0, 0, 1>>, <<2, 0, 0, 0>>}

\* angles of params: 0, pi/2, pi, 3 pi/2
ErrorAngles == 0..3

ErrorInit ==
    /\ error_U \in {get_matrix(q) : q \in GoalParams}
    /\ error_params \in [1..4 -> ErrorAngles]
    /\ epc = "get_matrix"
    /\ error_matrix = <<>>
    /\ error_dif = <<>>
    /\ error_ret = <<>>
    /\ HarnessIdle
    /\ QRAMIdle
    /\ GradIdle
    /\ NoiseIdle
    /\ FourierIdle
    /\ UnivIdle
    /\ SeededIdle

\* matrix = get_matrix(params); U = np.array(U)
ErrorGetMatrix ==
    /\ epc = "get_matrix"
    /\ error_matrix' = get_matrix(error_params)
    /\ epc' = "subtract"
    /\ UNCHANGED <<error_U, error_params, error_dif, error_ret>>
    /\ UNCHANGED notError

\* dif = np.subtract(U, matrix)
ErrorSubtract ==
    /\ epc = "subtract"
    /\ error_dif' = subtract(error_U, error_matrix)
    /\ epc' = "norm"
    /\ UNCHANGED <<error_U, error_params, error_matrix, error_ret>>
    /\ UNCHANGED notError

\* return np.linalg.norm(np.real(dif))
ErrorReturn ==
    /\ epc = "norm"
    /\ error_ret' = normOfReal(error_dif)
    /\ epc' = "done"
    /\ UNCHANGED <<error_U, error_params, error_matrix, error_dif>>
    /\ UNCHANGED notError

ErrorNext ==
    \/ ErrorGetMatrix
    \/ ErrorSubtract
    \/ ErrorReturn

SpecError == ErrorInit /\ [][ErrorNext]_vars

\* C14: error(U, params) is non-negative, and it is 0 exactly when
\* get_matrix(params) equals U in every entry, real and imaginary part.
C14_ErrorZeroIffEqual ==
    epc = "done" =>
        /\ R2NonNegative(error_ret.square)
        /\ error_ret.square = <<0, 0>> <=> sameMatrix(get_matrix(error_params), error_U)

====
